---- MODULE Spec2Model ----
(***************************************************************************)
(* A model of the fngr presence server: the connection tasks and the       *)
(* handlers of src/src/fingr-server/main.rs, the user registry of          *)
(* src/src/fingr-server/userlist.rs (with UserList::remove, which only     *)
(* src/src/userlist.rs defines), and the request decoder of                *)
(* src/src/networking/request.rs.                                          *)
(*                                                                         *)
(* Every `state.lock().await ... drop` section of a handler that holds no  *)
(* await point is one step; UserList::register and UserList::remove await  *)
(* file I/O while the lock is held, so they take the lock in one step and  *)
(* finish (and release it) in a second one.                                *)
(***************************************************************************)
EXTENDS Integers, Sequences, FiniteSets, TLC

\* ---------------------------------------------------------------- bounds

\* Connection tasks that exist at the same time (tokio::spawn per accept).
MaxConns == 2
\* The clock stops advancing after this many ticks.
MaxTicks == 3
\* Visit-log length beyond which no further finger is issued.
MaxLog == 2
\* Entries of the users file the server is started on, duplicates included.
MaxEntries == 3

\* ------------------------------------------------------- program constants

\* check_status: `3600..` and `>= 3600` (seconds).
Threshold == 3600

\* ------------------------------------------------------------ value sets

Conns == 1..MaxConns
Names == {"alice", "bob"}
\* What Uuid::from_bytes(rand::random()) can return.
Uuids == {"u1", "u2"}
\* A string that does not parse as a Uuid; also the server's auth_key.
Secret == "secret"
Texts == {"brb"}
\* One tick of the model's clock, in seconds.
TickSecs == Threshold \div 2

\* Option<T>: None is the empty sequence, Some(x) the one-element one.
None == << >>
Some(x) == << x >>
IsSome(o) == o # << >>
Unwrap(o) == o[1]
Opt(S) == {None} \cup {Some(x) : x \in S}

\* The Mutex: free, or held by connection task c.
Free == << "free" >>
Held(c) == << "conn", c >>

ActionNames == {"login", "logoff", "finger", "check", "bump", "list",
                "register", "deregister"}

\* --------------------------------------------------------------- decoder
\* A raw request is what Request::parse reads off the stream, already cut
\* into the pieces the code cuts it into:
\*   method  the first whitespace-separated part of the request line
\*   slash   whether the second part starts with "/"
\*   name    the text between "/" and the first "?"
\*   query   the "&"-separated items after "?", each split at "=":
\*           k is b[0]; v is Some(b[1]), or None when the item holds no "="
\*   headers the lines up to the blank line, each split at ":":
\*           v is None when the line holds no ":"

NoReq == [action |-> "none", username |-> None, key |-> None,
          auth |-> None, finger_user |-> None, status |-> None]

\* Action::from_str: an exact, case-sensitive match.
ParseAction(s) == IF s \in ActionNames THEN Some(s) ELSE None

\* The loop over the query items: r is the record of the four `let mut`
\* options; b[1] of an item without "=" is an out-of-bounds index (a panic),
\* evaluated only in the arms of the four recognized keys.
RECURSIVE ParseQuery(_, _)
ParseQuery(q, r) ==
    IF q = << >> THEN [kind |-> "ok", r |-> r]
    ELSE LET b == Head(q) IN
         IF b.k \in {"username", "key", "user", "status"}
         THEN IF b.v = None THEN [kind |-> "panic", r |-> r]
              ELSE ParseQuery(Tail(q),
                     CASE b.k = "username" -> [r EXCEPT !.username = b.v]
                       [] b.k = "key"      -> [r EXCEPT !.key = b.v]
                       [] b.k = "user"     -> [r EXCEPT !.finger_user = b.v]
                       [] b.k = "status"   -> [r EXCEPT !.status = b.v])
         ELSE ParseQuery(Tail(q), r)

\* The header loop: the first line without ":" is an error; the value of
\* the Authorization header (the last one, HashMap::insert) is kept.
RECURSIVE ParseHeaders(_, _)
ParseHeaders(h, auth) ==
    IF h = << >> THEN [ok |-> TRUE, auth |-> auth]
    ELSE IF Head(h).v = None THEN [ok |-> FALSE, auth |-> auth]
    ELSE ParseHeaders(Tail(h),
           IF Head(h).k = "Authorization" THEN Head(h).v ELSE auth)

ParseErr(msg) == [kind |-> "err", err |-> msg, req |-> NoReq]

\* Request::parse.
Parse(raw) ==
    IF raw.method # "GET" THEN ParseErr("invalid request type")
    ELSE IF ~raw.slash THEN ParseErr("invalid action:")
    ELSE IF ParseAction(raw.name) = None THEN ParseErr("unrecognized action")
    ELSE LET q == ParseQuery(raw.query, NoReq) IN
         IF q.kind = "panic" THEN [kind |-> "panic", err |-> "", req |-> NoReq]
         ELSE LET h == ParseHeaders(raw.headers, None) IN
              IF ~h.ok THEN ParseErr("invalid header")
              ELSE [kind |-> "ok", err |-> "",
                    req |-> [q.r EXCEPT !.action = raw.name, !.auth = h.auth]]

\* ------------------------------------------------------------------ state

VARIABLES
    config,   \* Config: registration, auth_key (fixed after Fingr::init)
    users,    \* UserList: username -> User, the HashMap behind the Mutex
    store,    \* the users_list file: valid (parses as a JSON list) and its list
    lock,     \* the tokio Mutex around Fingr: Free or the task holding it
    now,      \* the clock, in seconds
    pc,       \* per connection task: where the task is
    req,      \* per connection task: the decoded Request
    from,     \* per connection task: finger's from_user projection
    out       \* per connection task: the responses written to the stream

vars == << config, users, store, lock, now, pc, req, from, out >>

\* ------------------------------------------------------------------- User

\* Status::default() with online set.
DefaultStatus_Online(t) == [online |-> TRUE, text |-> None, since |-> t]

\* Status::default().
DefaultStatus(t) == [online |-> FALSE, text |-> None, since |-> t]

\* From<Status> for JSONStatus: since is the whole seconds elapsed.
JSONStatus(st, t) == [online |-> st.online, text |-> st.text, since |-> t - st.since]

\* Into<JSONResponse> for &User: JSONResponse::User { username, status }.
Projection(u, t) == [username |-> u.username, status |-> JSONStatus(u.status, t)]

\* finger's visitor when check_key did not return a username.
Anonymous(t) == [username |-> "anonymous", status |-> JSONStatus(DefaultStatus(t), t)]

\* The User literal with the status of server start instead of a fresh one.
NewUser_StaleSince(name, uuid, t) ==
    [username |-> name, uuid |-> uuid, status |-> DefaultStatus(0),
     bumped |-> None, log |-> << >>]

\* The User that UserList::register and UserList::load insert.
NewUser(name, uuid, t) ==
    [username |-> name, uuid |-> uuid, status |-> DefaultStatus(t),
     bumped |-> None, log |-> << >>]

\* User::compare_key.
compare_key(u, key) == key = u.uuid

\* User::set_status.
set_status(u, st) == [u EXCEPT !.status = st]

\* User::bump without the online test.
bump_Always(u, t) == [u EXCEPT !.bumped = Some(t)]

\* User::bump: the user after the call (the returned bool is u.status.online).
bump(u, t) == IF u.status.online THEN [u EXCEPT !.bumped = Some(t)] ELSE u

\* User::bump: the bool it returns, self.bumped() after the assignment in the
\* online branch and false in the other.
bump_ret(u, t) == IF u.status.online THEN IsSome(bump(u, t).bumped) ELSE FALSE

\* User::check_status with `>` in place of `3600..`.
check_status_Strict(u, t) ==
    IF u.status.online /\ t - u.status.since > Threshold
    THEN IF u.bumped = None
         THEN [u EXCEPT !.status.online = FALSE, !.status.since = t]
         ELSE IF t - Unwrap(u.bumped) >= Threshold
              THEN [u EXCEPT !.bumped = None, !.status.since = t,
                             !.status.online = FALSE]
              ELSE u
    ELSE u

\* User::check_status deciding on status.since alone.
check_status_IgnoresBump(u, t) ==
    IF u.status.online /\ t - u.status.since >= Threshold
    THEN [u EXCEPT !.bumped = None, !.status.since = t, !.status.online = FALSE]
    ELSE u

\* User::check_status without the Some(s) arm: a user who has bumped is
\* never expired.
check_status_KeepsBumped(u, t) ==
    IF u.status.online /\ t - u.status.since >= Threshold /\ u.bumped = None
    THEN [u EXCEPT !.status.online = FALSE, !.status.since = t]
    ELSE u

\* User::check_status at time t.
check_status(u, t) ==
    IF u.status.online /\ t - u.status.since >= Threshold
    THEN IF u.bumped = None
         THEN [u EXCEPT !.status.online = FALSE, !.status.since = t]
         ELSE IF t - Unwrap(u.bumped) >= Threshold
              THEN [u EXCEPT !.bumped = None, !.status.since = t,
                             !.status.online = FALSE]
              ELSE u
    ELSE u

\* Vec::dedup: consecutive equal elements collapse into the first.
RECURSIVE Dedup(_)
Dedup(s) ==
    IF Len(s) <= 1 THEN s
    ELSE IF s[1] = s[2] THEN Dedup(Tail(s))
    ELSE << s[1] >> \o Dedup(Tail(s))

\* User::add_log without dedup().
add_log_NoDedup(u, entry) == [u EXCEPT !.log = Append(u.log, entry)]

\* User::add_log that also takes the visit for a sign of life.
add_log_Touches(u, entry) ==
    [u EXCEPT !.log = Dedup(Append(u.log, entry)), !.status.online = TRUE]

\* User::add_log.
add_log(u, entry) == [u EXCEPT !.log = Dedup(Append(u.log, entry))]

\* User::log that returns the clone and keeps the log.
drain_log_Keeps(u) == u

\* User::log: the user after the call (the returned Vec is u.log).
drain_log(u) == [u EXCEPT !.log = << >>]

\* --------------------------------------------------------------- UserList

\* UserList::check_statuses.
check_statuses(us, t) == [n \in DOMAIN us |-> check_status(us[n], t)]

\* HashMap::insert.
Insert(us, name, u) == [n \in DOMAIN us \cup {name} |-> IF n = name THEN u ELSE us[n]]

\* HashMap::remove.
Delete(us, name) == [n \in DOMAIN us \ {name} |-> us[n]]

\* The users file with `list` written out in full.
ValidStore(list) == [valid |-> TRUE, list |-> list]
\* The users file cut short by a failed write: it no longer parses.
TornStore == [valid |-> FALSE, list |-> << >>]

\* The usernames the users file lists.
StoreNames(st) == {st.list[i].username : i \in 1..Len(st.list)}

\* Vec::remove(i), 0-based as in the code.
VecRemove(v, i) == SubSeq(v, 1, i) \o SubSeq(v, i + 2, Len(v))

\* UserList::remove's loop: i runs over the indices of the clone, and each
\* match calls users.remove(i) on the list being shortened; an index past
\* its end is a panic.
RECURSIVE RemoveLoop(_, _, _, _)
RemoveLoop(clone, list, i, name) ==
    IF i >= Len(clone) THEN [panic |-> FALSE, list |-> list]
    ELSE IF clone[i + 1].username = name
         THEN IF i >= Len(list) THEN [panic |-> TRUE, list |-> list]
              ELSE RemoveLoop(clone, VecRemove(list, i), i + 1, name)
         ELSE RemoveLoop(clone, list, i + 1, name)

\* What can go wrong with the users file during one register or remove:
\*   none   nothing
\*   open   open, read_to_end or rewind fails: nothing was written
\*   write  the first write to the file (register: write_all/flush; remove:
\*          set_len(0)) fails and leaves the file as it was
\*   torn   write_all/flush fails after part of the file was replaced
Faults == {"none", "open", "write", "torn"}

IoErr == "io error"
JsonErr == "json error"

Failed(us, st, msg) ==
    [kind |-> "err", err |-> msg, users |-> us, store |-> st, key |-> ""]

\* UserList::register with the insert moved before the write: a failed
\* write leaves the new user in the registry.
UserList_register_InsertFirst(us, st, name, uuid, fault, t) ==
    IF name \in DOMAIN us THEN Failed(us, st, "username already taken")
    ELSE IF fault = "open" THEN Failed(us, st, IoErr)
    ELSE IF ~st.valid THEN Failed(us, st, JsonErr)
    ELSE IF fault = "write"
    THEN Failed(Insert(us, name, NewUser(name, uuid, t)), st, IoErr)
    ELSE IF fault = "torn"
    THEN Failed(Insert(us, name, NewUser(name, uuid, t)), TornStore, IoErr)
    ELSE [kind |-> "ok", err |-> "", key |-> uuid,
          store |-> ValidStore(Append(st.list, [username |-> name, uid |-> uuid])),
          users |-> Insert(us, name, NewUser(name, uuid, t))]

\* UserList::register without the contains_key test: a second registration
\* appends a second entry and replaces the record.
UserList_register_NoConflict(us, st, name, uuid, fault, t) ==
    IF fault = "open" THEN Failed(us, st, IoErr)
    ELSE IF ~st.valid THEN Failed(us, st, JsonErr)
    ELSE IF fault = "write" THEN Failed(us, st, IoErr)
    ELSE IF fault = "torn" THEN Failed(us, TornStore, IoErr)
    ELSE [kind |-> "ok", err |-> "", key |-> uuid,
          store |-> ValidStore(Append(st.list, [username |-> name, uid |-> uuid])),
          users |-> Insert(us, name, NewUser(name, uuid, t))]

\* UserList::register(username, ulpath) with the Uuid that rand::random()
\* returned and the fault the file system produced.
UserList_register(us, st, name, uuid, fault, t) ==
    IF name \in DOMAIN us THEN Failed(us, st, "username already taken")
    ELSE IF fault = "open" THEN Failed(us, st, IoErr)
    ELSE IF ~st.valid THEN Failed(us, st, JsonErr)
    ELSE IF fault = "write" THEN Failed(us, st, IoErr)
    ELSE IF fault = "torn" THEN Failed(us, TornStore, IoErr)
    ELSE [kind |-> "ok", err |-> "", key |-> uuid,
          store |-> ValidStore(Append(st.list, [username |-> name, uid |-> uuid])),
          users |-> Insert(us, name, NewUser(name, uuid, t))]

\* UserList::remove without the final self.0.remove: the file is rewritten
\* and the record stays in the registry.
UserList_remove_KeepsRecord(us, st, name, fault) ==
    IF fault = "open" THEN Failed(us, st, IoErr)
    ELSE IF ~st.valid THEN Failed(us, st, JsonErr)
    ELSE LET l == RemoveLoop(st.list, st.list, 0, name) IN
         IF l.panic THEN [Failed(us, st, "") EXCEPT !.kind = "panic"]
         ELSE IF fault = "write" THEN Failed(us, st, IoErr)
         ELSE IF fault = "torn" THEN Failed(us, TornStore, IoErr)
         ELSE [kind |-> "ok", err |-> "", key |-> "",
               store |-> ValidStore(l.list), users |-> us]

\* UserList::remove(username, ulpath).
UserList_remove(us, st, name, fault) ==
    IF fault = "open" THEN Failed(us, st, IoErr)
    ELSE IF ~st.valid THEN Failed(us, st, JsonErr)
    ELSE LET l == RemoveLoop(st.list, st.list, 0, name) IN
         IF l.panic THEN [Failed(us, st, "") EXCEPT !.kind = "panic"]
         ELSE IF fault = "write" THEN Failed(us, st, IoErr)
         ELSE IF fault = "torn" THEN Failed(us, TornStore, IoErr)
         ELSE IF name \notin DOMAIN us
              THEN Failed(us, ValidStore(l.list), "failed to remove user")
              ELSE [kind |-> "ok", err |-> "", key |-> "",
                    store |-> ValidStore(l.list), users |-> Delete(us, name)]

\* -------------------------------------------------------------- responses

\* Response::from(status, JSONResponse): msg is the string of an Error or OK
\* body, user the projection of a User body, list the items of a List body.
Resp(status, msg) == [status |-> status, msg |-> msg, user |-> None, list |-> << >>]
RespUser(status, p) == [status |-> status, msg |-> "", user |-> Some(p), list |-> << >>]
RespList(status, l) == [status |-> status, msg |-> "", user |-> None, list |-> l]

\* Fingr::check_key on request r: a username (ok), the Response it returns
\* instead (resp), or the error of key.parse()? (err). The key is parsed
\* only once the user was found.
check_key(r, us) ==
    IF r.username = None
    THEN [kind |-> "resp", resp |-> Resp("Bad", "missing username")]
    ELSE IF r.key = None
    THEN [kind |-> "resp", resp |-> Resp("Bad", "missing key")]
    ELSE IF Unwrap(r.username) \notin DOMAIN us
    THEN [kind |-> "resp", resp |-> Resp("NotFound", "unknown username")]
    ELSE IF Unwrap(r.key) \notin Uuids
    THEN [kind |-> "err", resp |-> Resp("ServerError", "invalid uuid")]
    ELSE IF compare_key(us[Unwrap(r.username)], Unwrap(r.key))
    THEN [kind |-> "ok", resp |-> Resp("Ok", "")]
    ELSE [kind |-> "resp", resp |-> Resp("Unauth", "invalid username or key")]

\* check_key takes the lock only when both username and key are present.
NeedsLock(r) == r.username # None /\ r.key # None

\* ------------------------------------------------------------ connections

\* response.write(&mut stream), after which the task ends.
Write(c, r) ==
    /\ out' = [out EXCEPT ![c] = Append(@, r)]
    /\ pc' = [pc EXCEPT ![c] = "done"]

\* A panic unwinds the task: its MutexGuard is dropped, nothing is written.
Abort(c) ==
    /\ pc' = [pc EXCEPT ![c] = "panicked"]
    /\ out' = out

\* The username check_key returned.
Authed(c) == Unwrap(req[c].username)

\* Fingr::run, the spawned task up to run_request: Request::parse, and the
\* answer to a request that does not decode.
Accept(c, raw) ==
    /\ pc[c] = "idle"
    /\ LET p == Parse(raw) IN
       CASE p.kind = "ok" ->
              /\ req' = [req EXCEPT ![c] = p.req]
              /\ pc' = [pc EXCEPT ![c] = "dispatch"]
              /\ out' = out
         [] p.kind = "err" ->
              /\ Write(c, Resp("ServerError", p.err))
              /\ req' = req
         [] p.kind = "panic" ->
              /\ Abort(c)
              /\ req' = req
    /\ UNCHANGED << config, users, store, lock, now, from >>

\* The task is over and the stream dropped; the slot serves the next accept.
Close(c) ==
    /\ pc[c] \in {"done", "panicked"}
    /\ pc' = [pc EXCEPT ![c] = "idle"]
    /\ req' = [req EXCEPT ![c] = NoReq]
    /\ from' = [from EXCEPT ![c] = None]
    /\ out' = [out EXCEPT ![c] = << >>]
    /\ UNCHANGED << config, users, store, lock, now >>

\* The call of check_key that opens login, logoff, check, bump, deregister.
CheckKey(c) ==
    /\ pc[c] = "dispatch"
    /\ req[c].action \in {"login", "logoff", "check", "bump", "deregister"}
    /\ NeedsLock(req[c]) => lock = Free
    /\ LET k == check_key(req[c], users) IN
       IF k.kind = "ok"
       THEN pc' = [pc EXCEPT ![c] = "authed"] /\ out' = out
       ELSE Write(c, k.resp)
    /\ UNCHANGED << config, users, store, lock, now, req, from >>

\* change_online_status inserting a record for a user who is gone.
ChangeOnlineStatus_Upsert(c) ==
    /\ pc[c] = "authed"
    /\ req[c].action \in {"login", "logoff"}
    /\ lock = Free
    /\ users' = Insert(users, Authed(c),
                       set_status(NewUser(Authed(c), Unwrap(req[c].key), now),
                                  [online |-> req[c].action = "login",
                                   text |-> req[c].status, since |-> now]))
    /\ Write(c, Resp("Ok", "you are now logged on"))
    /\ UNCHANGED << config, store, lock, now, req, from >>

\* change_online_status storing req.status without the `.or(previous text)`.
ChangeOnlineStatus_DropsText(c) ==
    /\ pc[c] = "authed"
    /\ req[c].action \in {"login", "logoff"}
    /\ lock = Free
    /\ LET name == Authed(c)
           status == req[c].action = "login"
       IN IF name \in DOMAIN users
          THEN /\ users' = [users EXCEPT ![name] = set_status(@,
                    [online |-> status, text |-> req[c].status, since |-> now])]
               /\ Write(c, Resp("Ok", IF status THEN "you are now logged on"
                                      ELSE "you are now logged off"))
          ELSE /\ users' = users
               /\ Write(c, Resp("NotFound", "user not found"))
    /\ UNCHANGED << config, store, lock, now, req, from >>

\* Fingr::change_online_status after check_key: the second lock().
ChangeOnlineStatus(c) ==
    /\ pc[c] = "authed"
    /\ req[c].action \in {"login", "logoff"}
    /\ lock = Free
    /\ LET name == Authed(c)
           status == req[c].action = "login"
       IN IF name \in DOMAIN users
          THEN /\ users' = [users EXCEPT ![name] = set_status(@,
                    [online |-> status,
                     text |-> IF req[c].status # None THEN req[c].status
                              ELSE users[name].status.text,
                     since |-> now])]
               /\ Write(c, Resp("Ok", IF status THEN "you are now logged on"
                                      ELSE "you are now logged off"))
          ELSE /\ users' = users
               /\ Write(c, Resp("NotFound", "user not found"))
    /\ UNCHANGED << config, store, lock, now, req, from >>

\* Fingr::check draining every user's log.
Check_DrainsAll(c) ==
    /\ pc[c] = "authed"
    /\ req[c].action = "check"
    /\ lock = Free
    /\ users' = [n \in DOMAIN users |-> drain_log(users[n])]
    /\ Write(c, RespList("Ok", users[Authed(c)].log))
    /\ UNCHANGED << config, store, lock, now, req, from >>

\* Fingr::check after check_key: get_mut(..).unwrap().log().
Check(c) ==
    /\ pc[c] = "authed"
    /\ req[c].action = "check"
    /\ lock = Free
    /\ LET name == Authed(c) IN
       IF name \in DOMAIN users
       THEN /\ users' = [users EXCEPT ![name] = drain_log(@)]
            /\ Write(c, RespList("Ok", users[name].log))
       ELSE /\ users' = users
            /\ Abort(c)
    /\ UNCHANGED << config, store, lock, now, req, from >>

\* Fingr::bump bumping every record of the registry.
Bump_All(c) ==
    /\ pc[c] = "authed"
    /\ req[c].action = "bump"
    /\ lock = Free
    /\ LET name == Authed(c) IN
       IF name \in DOMAIN users
       THEN /\ users' = [n \in DOMAIN users |-> bump(users[n], now)]
            /\ Write(c, Resp("Ok", "you are bumped"))
       ELSE /\ users' = users
            /\ Abort(c)
    /\ UNCHANGED << config, store, lock, now, req, from >>

\* Fingr::bump after check_key: get_mut(..).unwrap().bump().
Bump(c) ==
    /\ pc[c] = "authed"
    /\ req[c].action = "bump"
    /\ lock = Free
    /\ LET name == Authed(c) IN
       IF name \in DOMAIN users
       THEN /\ users' = [users EXCEPT ![name] = bump(@, now)]
            /\ Write(c, Resp("Ok", "you are bumped"))
       ELSE /\ users' = users
            /\ Abort(c)
    /\ UNCHANGED << config, store, lock, now, req, from >>

\* Fingr::finger, first statement: check_key decides who the visitor is.
FingerCheckKey(c) ==
    /\ pc[c] = "dispatch"
    /\ req[c].action = "finger"
    /\ NeedsLock(req[c]) => lock = Free
    /\ IF check_key(req[c], users).kind = "ok"
       THEN /\ pc' = [pc EXCEPT ![c] = "finger_from"]
            /\ from' = from
       ELSE /\ pc' = [pc EXCEPT ![c] = "finger_visit"]
            /\ from' = [from EXCEPT ![c] = Some(Anonymous(now))]
    /\ UNCHANGED << config, users, store, lock, now, req, out >>

\* Fingr::finger, the then-branch: lock, users.get(&fuser).unwrap().into().
FingerFrom(c) ==
    /\ pc[c] = "finger_from"
    /\ lock = Free
    /\ IF Authed(c) \in DOMAIN users
       THEN /\ from' = [from EXCEPT ![c] = Some(Projection(users[Authed(c)], now))]
            /\ pc' = [pc EXCEPT ![c] = "finger_visit"]
            /\ out' = out
       ELSE /\ from' = from
            /\ Abort(c)
    /\ UNCHANGED << config, users, store, lock, now, req >>

\* Fingr::finger, the last lock(): the visit and the answer.
FingerVisit(c) ==
    /\ pc[c] = "finger_visit"
    /\ lock = Free
    /\ IF req[c].finger_user = None
       THEN /\ users' = users
            /\ Write(c, Resp("Bad", "a user is required"))
       ELSE LET usern == Unwrap(req[c].finger_user) IN
            IF usern \in DOMAIN users
            THEN LET user == add_log(users[usern], Unwrap(from[c])) IN
                 /\ Len(user.log) <= MaxLog
                 /\ users' = [users EXCEPT ![usern] = user]
                 /\ Write(c, RespUser("Ok", Projection(user, now)))
            ELSE /\ users' = users
                 /\ Write(c, Resp("NotFound", "user not found"))
    /\ UNCHANGED << config, store, lock, now, req, from >>

\* The orders in which HashMap::iter can yield the users.
Orders(S) == {s \in [1..Cardinality(S) -> S] : \A n \in S : \E i \in DOMAIN s : s[i] = n}

\* Fingr::list.
List(c) ==
    /\ pc[c] = "dispatch"
    /\ req[c].action = "list"
    /\ lock = Free
    /\ \E order \in Orders(DOMAIN users) :
         Write(c, RespList("Ok", [i \in DOMAIN order |-> Projection(users[order[i]], now)]))
    /\ UNCHANGED << config, users, store, lock, now, req, from >>

\* Fingr::register up to the call of UserList::register: the lock is taken
\* first and kept when the call is reached.
RegisterBegin(c) ==
    /\ pc[c] = "dispatch"
    /\ req[c].action = "register"
    /\ lock = Free
    /\ IF ~config.registration
       THEN /\ Write(c, Resp("Unauth", "registration is not allowed on this server"))
            /\ lock' = lock
       ELSE IF req[c].username = None
       THEN /\ Write(c, Resp("Bad", "a username is required to register"))
            /\ lock' = lock
       ELSE IF config.auth_key # None /\ req[c].key = None
       THEN /\ Write(c, Resp("Unauth", "incorrect registration key"))
            /\ lock' = lock
       ELSE /\ pc' = [pc EXCEPT ![c] = "register_io"]
            /\ out' = out
            /\ lock' = Held(c)
    /\ UNCHANGED << config, users, store, now, req, from >>

\* Fingr::register whose MutexGuard outlives the handler.
RegisterEnd_KeepsLock(c) ==
    /\ pc[c] = "register_io"
    /\ lock = Held(c)
    /\ \E uuid \in Uuids, fault \in Faults :
         LET r == UserList_register(users, store, Unwrap(req[c].username), uuid, fault, now) IN
         /\ users' = r.users
         /\ store' = r.store
         /\ Write(c, IF r.kind = "ok" THEN Resp("Ok", r.key)
                     ELSE Resp("ServerError", r.err))
    /\ lock' = lock
    /\ UNCHANGED << config, now, req, from >>

\* Fingr::register from UserList::register on; `?` hands an Err to run,
\* which answers ServerError with the error's text.
RegisterEnd(c) ==
    /\ pc[c] = "register_io"
    /\ lock = Held(c)
    /\ \E uuid \in Uuids, fault \in Faults :
         LET r == UserList_register(users, store, Unwrap(req[c].username), uuid, fault, now) IN
         /\ users' = r.users
         /\ store' = r.store
         /\ Write(c, IF r.kind = "ok" THEN Resp("Ok", r.key)
                     ELSE Resp("ServerError", r.err))
    /\ lock' = Free
    /\ UNCHANGED << config, now, req, from >>

\* Fingr::deregister after check_key: the second lock(), kept over remove.
DeregisterBegin(c) ==
    /\ pc[c] = "authed"
    /\ req[c].action = "deregister"
    /\ lock = Free
    /\ lock' = Held(c)
    /\ pc' = [pc EXCEPT ![c] = "remove_io"]
    /\ UNCHANGED << config, users, store, now, req, from, out >>

\* Fingr::deregister from UserList::remove on.
DeregisterEnd(c) ==
    /\ pc[c] = "remove_io"
    /\ lock = Held(c)
    /\ \E fault \in Faults :
         LET r == UserList_remove(users, store, Authed(c), fault) IN
         /\ users' = r.users
         /\ store' = r.store
         /\ CASE r.kind = "ok" -> Write(c, Resp("Ok", "your account has been removed"))
              [] r.kind = "err" -> Write(c, Resp("ServerError", r.err))
              [] r.kind = "panic" -> Abort(c)
    /\ lock' = Free
    /\ UNCHANGED << config, now, req, from >>

\* A pass of the offline worker that does not wait for the Mutex.
Sweep_NoLock ==
    /\ users' = check_statuses(users, now)
    /\ UNCHANGED << config, store, lock, now, pc, req, from, out >>

\* Fingr::offline_worker: one pass of the loop after its sleep.
Sweep ==
    /\ lock = Free
    /\ users' = check_statuses(users, now)
    /\ UNCHANGED << config, store, lock, now, pc, req, from, out >>

\* Time passes.
Tick ==
    /\ now < MaxTicks * TickSecs
    /\ now' = now + TickSecs
    /\ UNCHANGED << config, users, store, lock, pc, req, from, out >>

\* ----------------------------------------------------------------- inputs

Item(k, o) == IF o = None THEN << >> ELSE << [k |-> k, v |-> o] >>

\* "GET /<name>?username=..&key=..&user=..&status=.." and a blank line.
Get(name, username, key, user, status) ==
    [method |-> "GET", slash |-> TRUE, name |-> name,
     query |-> Item("username", username) \o Item("key", key)
               \o Item("user", user) \o Item("status", status),
     headers |-> << >>]

Keys == Uuids \cup {Secret}

\* Requests that do not decode: a wrong method, a path without "/", an
\* action in the wrong case, a header line without ":".
BadRequests ==
    {[Get("list", None, None, None, None) EXCEPT !.method = "POST"],
     [Get("list", None, None, None, None) EXCEPT !.slash = FALSE],
     Get("Login", Some("alice"), Some("u1"), None, None),
     [Get("list", None, None, None, None) EXCEPT
         !.headers = << [k |-> "Authorization", v |-> None] >>]}

\* ------------------------------------------------------------------ start

\* UserList::load: one User per entry of the file.
RECURSIVE Load(_, _)
Load(list, t) ==
    IF list = << >> THEN << >>
    ELSE Insert(Load(SubSeq(list, 1, Len(list) - 1), t),
                list[Len(list)].username,
                NewUser(list[Len(list)].username, list[Len(list)].uid, t))

\* The users files the server is started on.
InitLists == {<< >>, << [username |-> "alice", uid |-> "u1"] >>}

Init ==
    /\ config \in [registration : BOOLEAN, auth_key : Opt({Secret})]
    /\ \E list \in InitLists :
         /\ store = ValidStore(list)
         /\ users = Load(list, 0)
    /\ lock = Free
    /\ now = 0
    /\ pc = [c \in Conns |-> "idle"]
    /\ req = [c \in Conns |-> NoReq]
    /\ from = [c \in Conns |-> None]
    /\ out = [c \in Conns |-> << >>]

\* ------------------------------------------------- one connection at a time
\* Requests served one after the other: every action with every username and
\* credential, registration under every Config, a store that can fail, and
\* requests that do not decode. Fingers come from anonymous visitors.

SeqRequests ==
    {Get(a, u, k, None, None) :
        a \in {"login", "logoff", "check", "bump", "deregister", "register"},
        u \in Opt(Names), k \in Opt(Keys)}
    \cup {Get("finger", None, None, t, None) : t \in Opt(Names)}
    \cup {Get("list", None, None, None, None)}
    \cup BadRequests

NextSeq ==
    \/ \E c \in {1}, raw \in SeqRequests : Accept(c, raw)
    \/ \E c \in {1} : CheckKey(c)
    \/ \E c \in {1} : ChangeOnlineStatus(c)
    \/ \E c \in {1} : Check(c)
    \/ \E c \in {1} : Bump(c)
    \/ \E c \in {1} : FingerCheckKey(c)
    \/ \E c \in {1} : FingerVisit(c)
    \/ \E c \in {1} : List(c)
    \/ \E c \in {1} : RegisterBegin(c)
    \/ \E c \in {1} : RegisterEnd(c)
    \/ \E c \in {1} : DeregisterBegin(c)
    \/ \E c \in {1} : DeregisterEnd(c)
    \/ \E c \in {1} : Close(c)

SpecSeq == Init /\ [][NextSeq]_vars

\* ------------------------------------------------ concurrent connections
\* MaxConns connection tasks interleave at every lock(): the requests of one
\* user, alice, who presents the credential "u1", on a server that lets
\* anybody register.

ConcRequests ==
    {Get(a, Some("alice"), Some("u1"), None, None) :
        a \in {"login", "logoff", "check", "bump", "deregister", "register"}}
    \cup {Get("finger", Some("alice"), Some("u1"), Some("alice"), None)}

InitConc ==
    /\ Init
    /\ config = [registration |-> TRUE, auth_key |-> None]

NextConc ==
    \/ \E c \in Conns, raw \in ConcRequests : Accept(c, raw)
    \/ \E c \in Conns : CheckKey(c)
    \/ \E c \in Conns : ChangeOnlineStatus(c)
    \/ \E c \in Conns : Check(c)
    \/ \E c \in Conns : Bump(c)
    \/ \E c \in Conns : FingerCheckKey(c)
    \/ \E c \in Conns : FingerFrom(c)
    \/ \E c \in Conns : FingerVisit(c)
    \/ \E c \in Conns : RegisterBegin(c)
    \/ \E c \in Conns : RegisterEnd(c)
    \/ \E c \in Conns : DeregisterBegin(c)
    \/ \E c \in Conns : DeregisterEnd(c)
    \/ \E c \in Conns : Close(c)

SpecConc == InitConc /\ [][NextConc]_vars

\* --------------------------------------------------- the clock and the sweeper
\* One connection and the offline worker while time passes: every user's
\* requests with the credential "u1", alice's logins with and without a
\* status text, anonymous fingers of alice and list, on a server where
\* anybody can register.

TimeRequests ==
    {Get(a, Some(u), Some("u1"), None, None) :
        a \in {"login", "logoff", "check", "bump", "deregister", "register"},
        u \in Names}
    \cup {Get("login", Some("alice"), Some("u1"), None, Some(t)) : t \in Texts}
    \cup {Get("finger", None, None, Some("alice"), None),
          Get("list", None, None, None, None)}

NextTime ==
    \/ \E c \in {1}, raw \in TimeRequests : Accept(c, raw)
    \/ \E c \in {1} : CheckKey(c)
    \/ \E c \in {1} : ChangeOnlineStatus(c)
    \/ \E c \in {1} : Check(c)
    \/ \E c \in {1} : Bump(c)
    \/ \E c \in {1} : FingerCheckKey(c)
    \/ \E c \in {1} : FingerVisit(c)
    \/ \E c \in {1} : List(c)
    \/ \E c \in {1} : RegisterBegin(c)
    \/ \E c \in {1} : RegisterEnd(c)
    \/ \E c \in {1} : DeregisterBegin(c)
    \/ \E c \in {1} : DeregisterEnd(c)
    \/ \E c \in {1} : Close(c)
    \/ Sweep
    \/ Tick

SpecTime == InitConc /\ [][NextTime]_vars

\* ------------------------------------------------------- the sweeper, fairly
\* alice's logins, logoffs and bumps on one connection, the clock and the
\* offline worker. The clock advances as long as Tick allows it, and the
\* worker's loop (sleep, lock, check_statuses) never ends and gets the fair
\* tokio Mutex whenever a pass is due: both are weakly fair.

LiveRequests ==
    {Get(a, Some("alice"), Some("u1"), None, None) : a \in {"login", "logoff", "bump"}}

NextLive ==
    \/ \E c \in {1}, raw \in LiveRequests : Accept(c, raw)
    \/ \E c \in {1} : CheckKey(c)
    \/ \E c \in {1} : ChangeOnlineStatus(c)
    \/ \E c \in {1} : Bump(c)
    \/ \E c \in {1} : Close(c)
    \/ Sweep
    \/ Tick

SpecLive == InitConc /\ [][NextLive]_vars /\ WF_vars(Tick) /\ WF_vars(Sweep)

\* ------------------------------------------------------ concurrent fingers
\* MaxConns connection tasks interleave at every lock(), on a server started
\* with alice and bob in its users file: fingers of alice, of bob, of an
\* unknown user and of nobody by alice herself, fingers of alice by an
\* anonymous visitor and by visitors whose credentials check_key does not
\* accept, and alice's own login, logoff, check and deregister.

FingerList == << [username |-> "alice", uid |-> "u1"],
                 [username |-> "bob", uid |-> "u2"] >>

InitFinger ==
    /\ config = [registration |-> TRUE, auth_key |-> None]
    /\ store = ValidStore(FingerList)
    /\ users = Load(FingerList, 0)
    /\ lock = Free
    /\ now = 0
    /\ pc = [c \in Conns |-> "idle"]
    /\ req = [c \in Conns |-> NoReq]
    /\ from = [c \in Conns |-> None]
    /\ out = [c \in Conns |-> << >>]

FingerRequests ==
    {Get("finger", Some("alice"), Some("u1"), t, None) :
            t \in Opt({"alice", "bob", "carol"})}
    \cup {Get("finger", u, k, Some("alice"), None) :
            u \in Opt({"alice"}), k \in Opt({"u2", Secret})}
    \cup {Get("finger", Some("carol"), Some("u1"), Some("alice"), None)}
    \cup {Get(a, Some("alice"), Some("u1"), None, None) :
            a \in {"login", "logoff", "check", "deregister"}}

NextFinger ==
    \/ \E c \in Conns, raw \in FingerRequests : Accept(c, raw)
    \/ \E c \in Conns : CheckKey(c)
    \/ \E c \in Conns : ChangeOnlineStatus(c)
    \/ \E c \in Conns : Check(c)
    \/ \E c \in Conns : FingerCheckKey(c)
    \/ \E c \in Conns : FingerFrom(c)
    \/ \E c \in Conns : FingerVisit(c)
    \/ \E c \in Conns : DeregisterBegin(c)
    \/ \E c \in Conns : DeregisterEnd(c)
    \/ \E c \in Conns : Close(c)

SpecFinger == InitFinger /\ [][NextFinger]_vars

\* --------------------------------------------- handlers against the sweeper
\* MaxConns connection tasks and the offline worker contend for the Mutex
\* while time passes: alice's login, register and deregister, the last two
\* holding the lock over their file I/O.

LockRequests ==
    {Get(a, Some("alice"), Some("u1"), None, None) :
        a \in {"login", "register", "deregister"}}

NextLock ==
    \/ \E c \in Conns, raw \in LockRequests : Accept(c, raw)
    \/ \E c \in Conns : CheckKey(c)
    \/ \E c \in Conns : ChangeOnlineStatus(c)
    \/ \E c \in Conns : RegisterBegin(c)
    \/ \E c \in Conns : RegisterEnd(c)
    \/ \E c \in Conns : DeregisterBegin(c)
    \/ \E c \in Conns : DeregisterEnd(c)
    \/ \E c \in Conns : Close(c)
    \/ Sweep
    \/ Tick

SpecLock == InitConc /\ [][NextLock]_vars

\* ------------------------------------------------------------ the decoder
\* One connection that sends every shape of request the decoder tells
\* apart, on a server started with alice and bob in its users file: alice's
\* logins, logoffs and checks with and without a status text, fingers of
\* alice by anonymous visitors and list, each with a recognized key that
\* has no "=", an unknown key with and without "=", under a method other
\* than GET, a path without "/", action names that are not in the
\* enumeration, and header lines with and without ":". A status text is
\* the sequence of its pieces, "+" and each run of other characters being
\* one piece.

ParseTexts == {<< "brb" >>, << "be", "+", "right", "+", "back" >>}

\* A query item that holds no "=": a.split("=") yields b[0] alone.
Bare(k) == << [k |-> k, v |-> None] >>

\* What follows the items of a well-formed query.
ParseExtras ==
    {<< >>, Bare("username"), Bare("status"), Bare("lang"),
     << [k |-> "lang", v |-> Some("en")] >>}

\* The method, whether the path starts with "/", and the header lines.
ParseEnvelopes ==
    {[method |-> "GET", slash |-> TRUE, headers |-> h] :
        h \in {<< >>,
               << [k |-> "Authorization", v |-> Some("u1")] >>,
               << [k |-> "Authorization", v |-> Some("u1")],
                  [k |-> "Host", v |-> None] >>}}
    \cup {[method |-> m, slash |-> TRUE, headers |-> << >>] : m \in {"POST", "get"}}
    \cup {[method |-> "GET", slash |-> FALSE, headers |-> << >>]}

\* The action name and the well-formed items of the query.
ParsePaths ==
    {[name |-> n,
      query |-> Item("username", Some("alice")) \o Item("key", Some("u1"))
                \o Item("status", st)] :
        n \in {"login", "logoff", "check", "Login", "fngr"}, st \in Opt(ParseTexts)}
    \cup {[name |-> "finger", query |-> Item("user", t)] : t \in Opt({"alice"})}
    \cup {[name |-> "list", query |-> << >>]}

ParseRequests ==
    {[method |-> e.method, slash |-> e.slash, name |-> p.name,
      query |-> p.query \o x, headers |-> e.headers] :
        e \in ParseEnvelopes, p \in ParsePaths, x \in ParseExtras}

NextParse ==
    \/ \E c \in {1}, raw \in ParseRequests : Accept(c, raw)
    \/ \E c \in {1} : CheckKey(c)
    \/ \E c \in {1} : ChangeOnlineStatus(c)
    \/ \E c \in {1} : Check(c)
    \/ \E c \in {1} : FingerCheckKey(c)
    \/ \E c \in {1} : FingerVisit(c)
    \/ \E c \in {1} : List(c)
    \/ \E c \in {1} : Close(c)

SpecParse == InitFinger /\ [][NextParse]_vars

\* ----------------------------------------------------- the lock, fairly
\* MaxConns connection tasks and the offline worker contend for the Mutex
\* while time passes: alice's login, register and deregister, fingers of
\* alice by anonymous visitors and alice's own fingers of an unknown user.
\* The tokio Mutex hands the lock to its waiters in the order they asked,
\* so a task or a worker pass that can lock again and again does lock:
\* the handler steps of each task and the worker's pass are strongly fair.
\* File I/O under the lock ends, which the same condition covers. No
\* fairness is put on Accept and Close: clients need not connect.

FairRequests ==
    {Get(a, Some("alice"), Some("u1"), None, None) :
        a \in {"login", "register", "deregister"}}
    \cup {Get("finger", None, None, Some("alice"), None),
          Get("finger", Some("alice"), Some("u1"), Some("carol"), None)}

\* run_request of connection task c, from one lock().await to the next.
Handle(c) ==
    \/ CheckKey(c)
    \/ ChangeOnlineStatus(c)
    \/ FingerCheckKey(c)
    \/ FingerFrom(c)
    \/ FingerVisit(c)
    \/ RegisterBegin(c)
    \/ RegisterEnd(c)
    \/ DeregisterBegin(c)
    \/ DeregisterEnd(c)

NextFair ==
    \/ \E c \in Conns, raw \in FairRequests : Accept(c, raw)
    \/ \E c \in Conns : CheckKey(c)
    \/ \E c \in Conns : ChangeOnlineStatus(c)
    \/ \E c \in Conns : FingerCheckKey(c)
    \/ \E c \in Conns : FingerFrom(c)
    \/ \E c \in Conns : FingerVisit(c)
    \/ \E c \in Conns : RegisterBegin(c)
    \/ \E c \in Conns : RegisterEnd(c)
    \/ \E c \in Conns : DeregisterBegin(c)
    \/ \E c \in Conns : DeregisterEnd(c)
    \/ \E c \in Conns : Close(c)
    \/ Sweep
    \/ Tick

SpecFair ==
    /\ InitConc
    /\ [][NextFair]_vars
    /\ \A c \in Conns : SF_vars(Handle(c))
    /\ SF_vars(Sweep)

\* ------------------------------------------------------ two users at once
\* MaxConns connection tasks interleave at every lock(), on a server started
\* with alice and bob in its users file: alice logs in and off, bumps,
\* checks, fingers bob and deregisters; bob logs in, bumps, checks and
\* fingers alice; each with their own credential.

FrameRequests ==
    {Get(a, Some("alice"), Some("u1"), None, None) :
        a \in {"login", "logoff", "bump", "check", "deregister"}}
    \cup {Get(a, Some("bob"), Some("u2"), None, None) :
        a \in {"login", "bump", "check"}}
    \cup {Get("finger", Some("alice"), Some("u1"), Some("bob"), None),
          Get("finger", Some("bob"), Some("u2"), Some("alice"), None)}

NextFrame ==
    \/ \E c \in Conns, raw \in FrameRequests : Accept(c, raw)
    \/ \E c \in Conns : CheckKey(c)
    \/ \E c \in Conns : ChangeOnlineStatus(c)
    \/ \E c \in Conns : Check(c)
    \/ \E c \in Conns : Bump(c)
    \/ \E c \in Conns : FingerCheckKey(c)
    \/ \E c \in Conns : FingerFrom(c)
    \/ \E c \in Conns : FingerVisit(c)
    \/ \E c \in Conns : DeregisterBegin(c)
    \/ \E c \in Conns : DeregisterEnd(c)
    \/ \E c \in Conns : Close(c)

SpecFrame == InitFinger /\ [][NextFrame]_vars

\* ------------------------------------------------ any users file at start
\* One connection on a server started on any users file of at most
\* MaxEntries entries, a file that lists a username more than once
\* included: UserList::load takes such a file and keeps the last entry of
\* each name. alice and bob deregister, register and log in, and the file
\* system can fail.

DupEntries == {[username |-> "alice", uid |-> "u1"],
               [username |-> "bob", uid |-> "u2"]}

DupLists == UNION {[1..n -> DupEntries] : n \in 0..MaxEntries}

InitDup ==
    /\ config = [registration |-> TRUE, auth_key |-> None]
    /\ \E list \in DupLists :
         /\ store = ValidStore(list)
         /\ users = Load(list, 0)
    /\ lock = Free
    /\ now = 0
    /\ pc = [c \in Conns |-> "idle"]
    /\ req = [c \in Conns |-> NoReq]
    /\ from = [c \in Conns |-> None]
    /\ out = [c \in Conns |-> << >>]

DupRequests ==
    {Get(a, Some("alice"), Some("u1"), None, None) :
        a \in {"deregister", "register", "login"}}
    \cup {Get(a, Some("bob"), Some("u2"), None, None) :
        a \in {"deregister", "register", "login"}}

NextDup ==
    \/ \E c \in {1}, raw \in DupRequests : Accept(c, raw)
    \/ \E c \in {1} : CheckKey(c)
    \/ \E c \in {1} : ChangeOnlineStatus(c)
    \/ \E c \in {1} : RegisterBegin(c)
    \/ \E c \in {1} : RegisterEnd(c)
    \/ \E c \in {1} : DeregisterBegin(c)
    \/ \E c \in {1} : DeregisterEnd(c)
    \/ \E c \in {1} : Close(c)

SpecDup == InitDup /\ [][NextDup]_vars

\* ----------------------------------------------------------------- claims

AuthActions == {"login", "logoff", "check", "bump", "deregister"}

\* The response written on connection c.
Answer(c) == out[c][1]

\* How often the users file lists a username.
Count(list, name) == Cardinality({i \in 1..Len(list) : list[i].username = name})

\* Connection c has passed check_key and has not yet made the registry
\* access the check was for.
Between(c) == pc[c] \in {"authed", "finger_from"}

\* This step is a lock() of connection task d.
TakesLock(d) ==
    /\ pc'[d] # pc[d]
    /\ pc[d] \in {"dispatch", "authed", "finger_from", "finger_visit"}
    /\ (pc[d] = "dispatch" /\ req[d].action \notin {"register", "list"})
          => NeedsLock(req[d])

\* C1: between the credential check of a request and the registry access it
\* authorizes, no other connection task takes the registry lock.
C1_AuthAndMutationUnderOneHold ==
    [][\A c \in Conns, d \in Conns :
          (c # d /\ Between(c)) => ~TakesLock(d)]_vars

\* C2: a connection whose request was decoded ends with exactly one
\* response written, in every interleaving.
C2_ExactlyOneResponse ==
    \A c \in Conns :
        (pc[c] \in {"done", "panicked"} /\ req[c].action # "none")
           => Len(out[c]) = 1

\* Registration is enabled and the configured secret, if any, was presented.
RegisterAllowed(c) ==
    /\ config.registration
    /\ config.auth_key # None => req[c].key = config.auth_key

\* C3: a register request changes the registry or the store only if
\* registration is enabled and the configured secret was presented;
\* otherwise it is answered Unauthorized and changes neither.
C3_RegisterNeedsSecret ==
    [][\A c \in Conns :
          (/\ req[c].action = "register"
           /\ req[c].username # None
           /\ pc[c] \in {"dispatch", "register_io"}
           /\ pc'[c] = "done")
          => /\ (users' # users \/ store' # store) => RegisterAllowed(c)
             /\ ~RegisterAllowed(c) =>
                   /\ Answer(c)'.status = "Unauth"
                   /\ users' = users
                   /\ store' = store]_vars

\* The request of c names a registered user and carries no credential or
\* one that is not the stored one.
BadCredential(c) ==
    /\ req[c].username # None
    /\ Unwrap(req[c].username) \in DOMAIN users
    /\ \/ req[c].key = None
       \/ Unwrap(req[c].key) # users[Unwrap(req[c].username)].uuid

\* C4: login, logoff, check, bump and deregister with a missing or wrong
\* credential for a registered user are answered Unauthorized and change
\* no record.
C4_BadCredentialUnauthorized ==
    [][\A c \in Conns :
          (/\ req[c].action \in AuthActions
           /\ pc[c] = "dispatch"
           /\ pc'[c] # "dispatch"
           /\ BadCredential(c))
          => /\ pc'[c] = "done"
             /\ Answer(c)'.status = "Unauth"
             /\ users' = users
             /\ store' = store]_vars

\* C5: a request that does not decode is answered BadRequest with the
\* decoder's message, and the registry is unchanged.
C5_ParseFailureBadRequest ==
    [][\A c \in Conns :
          (pc[c] = "idle" /\ pc'[c] = "done")
          => /\ Answer(c)'.status = "Bad"
             /\ Answer(c)'.msg \in {"invalid request type", "invalid action:",
                                   "unrecognized action", "invalid header"}
             /\ users' = users
             /\ store' = store]_vars

\* C6: after every completed register or deregister, failed or not, the
\* registry and the users file hold the same usernames.
C6_RegistryEqualsStore ==
    \A c \in Conns :
        (pc[c] \in {"done", "panicked"} /\ req[c].action \in {"register", "deregister"})
           => DOMAIN users = StoreNames(store)

\* C7: remove(u) of a user the users file does not list fails with NotFound
\* and leaves the file and the registry as they were (the file system
\* itself not failing).
C7_RemoveAbsentNotFound ==
    [][\A c \in Conns :
          (/\ pc[c] = "remove_io"
           /\ pc'[c] # "remove_io"
           /\ store.valid
           /\ Authed(c) \notin StoreNames(store)
           /\ pc'[c] = "done" => Answer(c)'.msg # IoErr)
          => /\ pc'[c] = "done"
             /\ Answer(c)'.status = "NotFound"
             /\ users' = users
             /\ store' = store]_vars

\* The step wrote the users file out with a new entry for name at its end.
Appended(name) ==
    /\ store'.valid
    /\ Len(store'.list) = Len(store.list) + 1
    /\ store'.list[Len(store'.list)].username = name

\* C8: a register that does not get its entry written to the users file
\* inserts nothing into the registry, leaves every record as it was and is
\* answered ServerError.
C8_FailedRegisterNoInsert ==
    [][\A c \in Conns :
          (/\ pc[c] = "register_io"
           /\ pc'[c] # "register_io"
           /\ ~Appended(Authed(c)))
          => /\ users' = users
             /\ pc'[c] = "done"
             /\ Answer(c)'.status = "ServerError"]_vars

\* C8 witness: a register answered with the I/O error, its user not in the
\* registry, which holds another user.
C8_Witness ==
    \E c \in Conns :
        /\ pc[c] = "done"
        /\ req[c].action = "register"
        /\ Answer(c).msg = IoErr
        /\ Authed(c) \notin DOMAIN users
        /\ DOMAIN users # {}

\* C9: registering a registered username fails with the error body
\* "username already taken" whatever the key, the record (credential,
\* status, bumped, visit log) and the users file stay as they were, and the
\* file lists the username once.
C9_ConflictLeavesFirst ==
    [][\A c \in Conns :
          (/\ pc[c] = "register_io"
           /\ pc'[c] # "register_io"
           /\ Authed(c) \in DOMAIN users)
          => /\ pc'[c] = "done"
             /\ Answer(c)' = Resp("ServerError", "username already taken")
             /\ users' = users
             /\ store' = store
             /\ store'.valid => Count(store'.list, Authed(c)) = 1]_vars

\* C9 witness: a refused second registration of a user who is online, has
\* bumped and has a visit in the log.
C9_Witness ==
    \E c \in Conns :
        /\ pc[c] = "done"
        /\ req[c].action = "register"
        /\ Answer(c).msg = "username already taken"
        /\ users[Authed(c)].status.online
        /\ users[Authed(c)].bumped # None
        /\ users[Authed(c)].log # << >>
        /\ store.valid

\* The entries of the users file that are not name's.
Without(list, name) == SelectSeq(list, LAMBDA e : e.username # name)

\* C10: a deregister answered OK leaves u out of the registry and of the
\* users file, and every other record and file entry as it was.
C10_DeregisterRemovesOnlyU ==
    [][\A c \in Conns :
          (/\ pc[c] = "remove_io"
           /\ pc'[c] = "done"
           /\ Answer(c)'.status = "Ok")
          => /\ Authed(c) \notin DOMAIN users'
             /\ store'.valid
             /\ Authed(c) \notin StoreNames(store')
             /\ store'.list = Without(store.list, Authed(c))
             /\ DOMAIN users' = DOMAIN users \ {Authed(c)}
             /\ \A v \in DOMAIN users' : users'[v] = users[v]]_vars

\* C10 witness: a deregister answered OK, with another user still
\* registered and listed.
C10_Witness ==
    \E c \in Conns :
        /\ pc[c] = "done"
        /\ req[c].action = "deregister"
        /\ Answer(c).status = "Ok"
        /\ Authed(c) \notin DOMAIN users
        /\ DOMAIN users # {}
        /\ StoreNames(store) = DOMAIN users

\* The record of u after a pass of the offline worker in this state.
Swept(u) == check_statuses(users, now)[u]

\* u is registered and online.
Online(u) == u \in DOMAIN users /\ users[u].status.online

\* C11: right after a register answered OK the registry holds u's record
\* with the credential handed out, offline since the registration time,
\* without status text, bumped unset and an empty visit log.
C11_RegisteredOffline ==
    [][\A c \in Conns :
          (/\ pc[c] = "register_io"
           /\ pc'[c] = "done"
           /\ Answer(c)'.status = "Ok")
          => /\ Authed(c) \in DOMAIN users'
             /\ users'[Authed(c)] =
                   [username |-> Authed(c), uuid |-> Answer(c)'.msg,
                    status |-> [online |-> FALSE, text |-> None, since |-> now],
                    bumped |-> None, log |-> << >>]]_vars

\* C11 witness: a register answered OK after time has passed, its user
\* offline since that very time.
C11_Witness ==
    \E c \in Conns :
        /\ pc[c] = "done"
        /\ req[c].action = "register"
        /\ Answer(c).status = "Ok"
        /\ now > 0
        /\ users[Authed(c)].status = [online |-> FALSE, text |-> None, since |-> now]

\* C12: a pass of the offline worker over an online user with bumped unset
\* sets the user offline since the time of the pass when status.since is
\* 3600 s old or older, and leaves the record as it is when it is younger.
C12_SweepExpiresUnbumped ==
    \A u \in DOMAIN users :
        (users[u].status.online /\ users[u].bumped = None)
           => Swept(u) = IF now - users[u].status.since >= 3600
                         THEN [users[u] EXCEPT !.status.online = FALSE,
                                               !.status.since = now]
                         ELSE users[u]

\* C12 witness: an online user with a status text and bumped unset whose
\* status.since is exactly 3600 s old, beside a younger online user.
C12_Witness ==
    \E u \in DOMAIN users, v \in DOMAIN users :
        /\ users[u].status.online
        /\ users[u].bumped = None
        /\ users[u].status.text # None
        /\ now - users[u].status.since = 3600
        /\ users[v].status.online
        /\ users[v].bumped = None
        /\ now - users[v].status.since < 3600

\* C13: a pass of the offline worker over an online user whose bump is
\* 3600 s old or older clears bumped and sets the user offline since the
\* time of the pass, whatever status.since is.
C13_SweepDecidesOnBumpAlone ==
    \A u \in DOMAIN users :
        (/\ users[u].status.online
         /\ users[u].bumped # None
         /\ now - Unwrap(users[u].bumped) >= 3600)
           => Swept(u) = [users[u] EXCEPT !.status.online = FALSE,
                                          !.status.since = now,
                                          !.bumped = None]

\* C14: a pass of the offline worker over an online user whose bump is
\* younger than 3600 s leaves the record, online and bumped included, as it
\* is; so no step that is neither a request's nor the clock's takes a user
\* with such a bump offline.
C14_FreshBumpKeepsOnline ==
    \A u \in DOMAIN users :
        (/\ users[u].status.online
         /\ users[u].bumped # None
         /\ now - Unwrap(users[u].bumped) < 3600)
           => Swept(u) = users[u]

\* C14 witness: an online user whose status.since has reached 3600 s and
\* whose bump has not.
C14_Witness ==
    \E u \in DOMAIN users :
        /\ users[u].status.online
        /\ users[u].bumped # None
        /\ now - Unwrap(users[u].bumped) < 3600
        /\ now - users[u].status.since >= 3600

\* C15: a user is online after a step and was not before it (offline, or not
\* registered) only if the step is the second half of that user's own
\* login, answered OK.
C15_OnlyLoginSetsOnline ==
    [][\A u \in Names :
          (/\ u \in DOMAIN users'
           /\ users'[u].status.online
           /\ ~Online(u))
          => \E c \in Conns :
                /\ pc[c] = "authed"
                /\ req[c].action = "login"
                /\ Authed(c) = u
                /\ pc'[c] = "done"
                /\ Answer(c)'.status = "Ok"]_vars

\* C15 witness: a login answered OK with its user online, 3600 s or more
\* after the server started.
C15_Witness ==
    \E c \in Conns :
        /\ pc[c] = "done"
        /\ req[c].action = "login"
        /\ Answer(c).status = "Ok"
        /\ Online(Authed(c))
        /\ now >= 3600

\* C16: after a login answered OK the user is online since the login time
\* with bumped unset; after a logoff answered OK the user is offline since
\* the logoff time.
C16_LoginResetsRecord ==
    [][\A c \in Conns :
          (/\ pc[c] = "authed"
           /\ req[c].action \in {"login", "logoff"}
           /\ pc'[c] = "done"
           /\ Answer(c)'.status = "Ok")
          => /\ users'[Authed(c)].status.since = now
             /\ users'[Authed(c)].status.online = (req[c].action = "login")
             /\ req[c].action = "login" => users'[Authed(c)].bumped = None]_vars

\* C17: a registered user who is offline has bumped unset.
C17_OfflineHasNoBump ==
    \A u \in DOMAIN users : ~users[u].status.online => users[u].bumped = None

\* C18: User::bump returns true exactly when the user is online; it then
\* sets bumped to the time of the call and nothing else; when it returns
\* false the record is unchanged.
C18_BumpFrame ==
    [][\A c \in Conns :
          (/\ pc[c] = "authed"
           /\ req[c].action = "bump"
           /\ pc'[c] = "done")
          => LET u == users[Authed(c)]
                 v == users'[Authed(c)]
             IN /\ bump_ret(u, now) = u.status.online
                /\ v.status = u.status
                /\ u.status.online => v = [u EXCEPT !.bumped = Some(now)]
                /\ ~u.status.online => v = u
                /\ \A n \in DOMAIN users \ {Authed(c)} : users'[n] = users[n]]_vars

\* C18 witness: a bump just answered for an online user who had bumped at an
\* earlier time.
C18_Witness ==
    \E c \in Conns :
        /\ pc[c] = "done"
        /\ req[c].action = "bump"
        /\ Answer(c).status = "Ok"
        /\ Online(Authed(c))
        /\ users[Authed(c)].bumped = Some(now)
        /\ users[Authed(c)].status.since < now

\* C19: a bump that passed check_key is answered OK with "you are bumped",
\* the user being online or not.
C19_BumpAlwaysOk ==
    [][\A c \in Conns :
          (/\ pc[c] = "authed"
           /\ req[c].action = "bump"
           /\ pc'[c] # "authed")
          => /\ pc'[c] = "done"
             /\ Answer(c)' = Resp("Ok", "you are bumped")]_vars

\* This step is the second half of a login or a bump of u.
Refresh(u) ==
    \E c \in Conns :
        /\ pc[c] = "authed"
        /\ req[c].action \in {"login", "bump"}
        /\ Authed(c) = u
        /\ pc'[c] = "done"

\* status.since or the bump of u, if any, is younger than 3600 s.
Young(u) ==
    \/ now - users[u].status.since < 3600
    \/ users[u].bumped # None /\ now - Unwrap(users[u].bumped) < 3600

\* C20: while the clock advances and the offline worker runs, a user whose
\* logins and bumps come to an end is set offline and stays so; the user
\* stays online only if logins or bumps recur for ever, or if the clock
\* stops before the login and the last bump are 3600 s old.
C20_EventuallyOffline ==
    \A u \in Names :
        \/ []<><<Refresh(u)>>_vars
        \/ <>[](~Online(u))
        \/ <>[](Online(u) /\ Young(u))

\* C20 witness: a login answered OK is the last request of the only
\* connection, and its user is offline since the present time: the offline
\* worker has expired the login.
C20_Witness ==
    \E c \in Conns :
        /\ pc[c] = "done"
        /\ req[c].action = "login"
        /\ Answer(c).status = "Ok"
        /\ ~Online(Authed(c))
        /\ users[Authed(c)].status.since = now
        /\ now >= 3600

\* C21: while a connection task holds the registry lock, the registry and
\* the users file change only in that task's own steps (no pass of the
\* offline worker takes effect) and no other connection task enters a
\* section that reads or writes the registry.
C21_OneCriticalSection ==
    [][\A c \in Conns :
          lock = Held(c)
          => /\ (users' # users \/ store' # store) => pc'[c] # pc[c]
             /\ \A d \in Conns \ {c} : ~TakesLock(d)]_vars

\* C21 witness: a task holds the lock over its file I/O while the other
\* task waits to lock and a pass of the offline worker is due for an online
\* user whose login is 3600 s old.
C21_Witness ==
    \E c \in Conns, d \in Conns, u \in DOMAIN users :
        /\ c # d
        /\ lock = Held(c)
        /\ pc[d] \in {"dispatch", "authed"}
        /\ users[u].status.online
        /\ now - users[u].status.since >= 3600

\* C22: a login or logoff that passed check_key and finds its user gone
\* when it locks again is answered NotFound, and the registry and the
\* users file stay as they are.
C22_VanishedUserNotFound ==
    [][\A c \in Conns :
          (/\ pc[c] = "authed"
           /\ req[c].action \in {"login", "logoff"}
           /\ pc'[c] # "authed"
           /\ Authed(c) \notin DOMAIN users)
          => /\ pc'[c] = "done"
             /\ Answer(c)'.status = "NotFound"
             /\ users' = users
             /\ store' = store]_vars

\* C22 witness: a login answered "user not found" by change_online_status
\* (check_key's own answer reads "unknown username"), its user not
\* registered.
C22_Witness ==
    \E c \in Conns :
        /\ pc[c] = "done"
        /\ req[c].action = "login"
        /\ Answer(c) = Resp("NotFound", "user not found")
        /\ Authed(c) \notin DOMAIN users

\* The finger of c comes from a caller whose credentials check_key accepted.
ValidCaller(c) ==
    \/ pc[c] = "finger_from"
    \/ pc[c] = "finger_visit" /\ Unwrap(from[c]).username # "anonymous"

\* C23: a finger by a caller with valid credentials whose target is not
\* registered is answered NotFound, and no record changes on the way.
C23_FingerUnknownTarget ==
    [][\A c \in Conns :
          (/\ req[c].action = "finger"
           /\ ValidCaller(c)
           /\ pc'[c] # pc[c]
           /\ req[c].finger_user # None
           /\ Unwrap(req[c].finger_user) \notin DOMAIN users)
          => /\ users' = users
             /\ store' = store
             /\ pc'[c] \in {"finger_visit", "done"}
             /\ pc'[c] = "done" => Answer(c)'.status = "NotFound"]_vars

\* The log entry of a visitor check_key did not accept.
AnonymousEntry ==
    [username |-> "anonymous",
     status |-> [online |-> FALSE, text |-> None, since |-> 0]]

\* C24: a finger of a registered target goes through whatever its
\* credentials are: without accepted credentials the visitor is "anonymous"
\* with the default status, with accepted ones the visitor is the caller's
\* projection, and the visit is appended to the target's log and answered
\* OK.
C24_FingerNeverFailsOnAuth ==
    [][\A c \in Conns :
          (/\ req[c].action = "finger"
           /\ pc'[c] # pc[c]
           /\ req[c].finger_user # None
           /\ Unwrap(req[c].finger_user) \in DOMAIN users)
          => LET t == Unwrap(req[c].finger_user) IN
             CASE pc[c] = "dispatch" ->
                    /\ pc'[c] \in {"finger_from", "finger_visit"}
                    /\ pc'[c] = "finger_visit" <=> check_key(req[c], users).kind # "ok"
                    /\ pc'[c] = "finger_visit" => from'[c] = Some(AnonymousEntry)
               [] pc[c] = "finger_from" ->
                    /\ pc'[c] = "finger_visit"
                    /\ from'[c] = Some(Projection(users[Authed(c)], now))
               [] pc[c] = "finger_visit" ->
                    /\ pc'[c] = "done"
                    /\ Answer(c)'.status = "Ok"
                    /\ t \in DOMAIN users'
                    /\ users'[t].log = Dedup(Append(users[t].log, Unwrap(from[c])))
               [] OTHER -> TRUE]_vars

\* C25: a finger answered OK returns the target's projection in the state
\* in which the visit is recorded, and changes nothing but the target's
\* visit log.
C25_FingerFrame ==
    [][\A c \in Conns :
          (/\ pc[c] = "finger_visit"
           /\ pc'[c] = "done"
           /\ Answer(c)'.status = "Ok")
          => LET t == Unwrap(req[c].finger_user) IN
             /\ Answer(c)'.user = Some(Projection(users[t], now))
             /\ DOMAIN users' = DOMAIN users
             /\ users' = [users EXCEPT ![t].log = users'[t].log]
             /\ store' = store]_vars

\* C25 witness: alice's finger of bob is answered OK while she is online;
\* bob's log holds two visits.
C25_Witness ==
    \E c \in Conns :
        /\ pc[c] = "done"
        /\ req[c].action = "finger"
        /\ req[c].finger_user = Some("bob")
        /\ Answer(c).status = "Ok"
        /\ "bob" \in DOMAIN users
        /\ Len(users["bob"].log) = 2
        /\ Online("alice")

\* C26: the entry an authenticated finger appends carries the online flag
\* and the status text the visitor has in the state in which it is appended.
C26_VisitorSnapshotCurrent ==
    [][\A c \in Conns :
          (/\ pc[c] = "finger_visit"
           /\ pc'[c] = "done"
           /\ Answer(c)'.status = "Ok"
           /\ Unwrap(from[c]).username # "anonymous"
           /\ Authed(c) \in DOMAIN users)
          => /\ Unwrap(from[c]).status.online = users[Authed(c)].status.online
             /\ Unwrap(from[c]).status.text = users[Authed(c)].status.text]_vars

\* No two neighbours of the sequence are equal.
NoEqualNeighbours(l) == \A i \in 1..(Len(l) - 1) : l[i] # l[i + 1]

\* C27: no visit log ever holds two equal adjacent entries, and a visit
\* leaves the log as it was when its entry equals the last one and appends
\* the entry at the end otherwise, the earlier entries keeping their order.
C27_NoAdjacentDuplicates ==
    /\ [](\A u \in DOMAIN users : NoEqualNeighbours(users[u].log))
    /\ [][\A c \in Conns :
            (/\ pc[c] = "finger_visit"
             /\ pc'[c] = "done"
             /\ Answer(c)'.status = "Ok")
            => LET t == Unwrap(req[c].finger_user)
                   l == users[t].log
                   e == Unwrap(from[c])
               IN users'[t].log = IF l # << >> /\ l[Len(l)] = e
                                  THEN l ELSE Append(l, e)]_vars

\* C27 witness: both connections have fingered bob, whose log nobody
\* drains, with the same visitor entry, and the log holds it once.
C27_Witness ==
    /\ \A c \in Conns :
          /\ pc[c] = "done"
          /\ req[c].action = "finger"
          /\ req[c].finger_user = Some("bob")
          /\ Answer(c).status = "Ok"
          /\ from[c] = from[1]
    /\ users["bob"].log = from[1]

\* C28: User::log, called by check, returns the visit log as it stands, in
\* order, and leaves it empty; called again before any new visit it returns
\* the empty list.
C28_DrainReturnsAndEmpties ==
    [][\A c \in Conns :
          (/\ pc[c] = "authed"
           /\ req[c].action = "check"
           /\ pc'[c] = "done")
          => /\ Answer(c)'.status = "Ok"
             /\ Answer(c)'.list = users[Authed(c)].log
             /\ users'[Authed(c)].log = << >>
             /\ users[Authed(c)].log = << >> => Answer(c)'.list = << >>]_vars

\* C28 witness: a check has returned two visits, an anonymous one before
\* the user's own, and the log is empty.
C28_Witness ==
    \E c \in Conns :
        /\ pc[c] = "done"
        /\ req[c].action = "check"
        /\ Len(Answer(c).list) = 2
        /\ Answer(c).list[1].username = "anonymous"
        /\ Answer(c).list[2].username = Authed(c)
        /\ Authed(c) \in DOMAIN users
        /\ users[Authed(c)].log = << >>

\* C29: a check changes nothing but the visit log of the user it was
\* authenticated for, which it returns and empties when it answers; a check
\* that check_key turns down changes nothing at all.
C29_CheckFrame ==
    [][\A c \in Conns :
          (req[c].action = "check" /\ pc'[c] # pc[c] /\ pc[c] \in {"dispatch", "authed"})
          => /\ store' = store
             /\ pc[c] = "dispatch" => users' = users
             /\ pc[c] = "authed" =>
                   /\ DOMAIN users' = DOMAIN users
                   /\ \A n \in DOMAIN users :
                         users'[n] = IF n = Authed(c) /\ pc'[c] = "done"
                                     THEN [users[n] EXCEPT !.log = << >>]
                                     ELSE users[n]
                   /\ pc'[c] = "done" => Answer(c)'.list = users[Authed(c)].log]_vars

\* C29 witness: a check has returned a visit to its user, who is online and
\* has bumped, while another user's log still holds a visit.
C29_Witness ==
    \E c \in Conns, n \in DOMAIN users :
        /\ pc[c] = "done"
        /\ req[c].action = "check"
        /\ Answer(c).status = "Ok"
        /\ Answer(c).list # << >>
        /\ Online(Authed(c))
        /\ users[Authed(c)].bumped # None
        /\ users[Authed(c)].log = << >>
        /\ n # Authed(c)
        /\ users[n].log # << >>

\* The request of c lacks the query parameter its action requires.
MissingParameter(c) ==
    \/ req[c].action \in {"login", "logoff", "register"} /\ req[c].username = None
    \/ req[c].action = "finger" /\ req[c].finger_user = None

\* C30: a login, logoff or register without `username` and a finger
\* without `user` are answered BadRequest, and the registry and the users
\* file do not change while they are served.
C30_MissingParameterBadRequest ==
    [][\A c \in Conns :
          (/\ MissingParameter(c)
           /\ pc[c] \in {"dispatch", "finger_from", "finger_visit"}
           /\ pc'[c] # pc[c])
          => /\ users' = users
             /\ store' = store
             /\ pc'[c] \in {"finger_from", "finger_visit", "done"}
             /\ req[c].action # "finger" => pc'[c] = "done"
             /\ pc'[c] = "done" => Answer(c)'.status = "Bad"]_vars

\* C31: a login or logoff of u that is answered Ok leaves u's status at
\* {online = login?, text = the request's text if it carries one and u's
\* previous text otherwise, since = now}; and as long as u stays registered
\* no step changes u's status text except a login or logoff that carries a
\* text, so the text survives logins, logoffs and sweeps without one.
C31_StatusTextPersists ==
    [][/\ \A c \in Conns :
             (/\ pc[c] = "authed"
              /\ req[c].action \in {"login", "logoff"}
              /\ pc'[c] = "done"
              /\ Answer(c)'.status = "Ok")
             => /\ Authed(c) \in DOMAIN users
                /\ users'[Authed(c)].status =
                      [online |-> req[c].action = "login",
                       text |-> IF req[c].status # None THEN req[c].status
                                ELSE users[Authed(c)].status.text,
                       since |-> now]
       /\ \A u \in DOMAIN users \cap DOMAIN users' :
             users'[u].status.text # users[u].status.text
             => \E c \in Conns :
                   /\ pc[c] = "authed"
                   /\ pc'[c] = "done"
                   /\ req[c].action \in {"login", "logoff"}
                   /\ Authed(c) = u
                   /\ req[c].status # None
                   /\ users'[u].status.text = req[c].status]_vars

\* C31 witness: a logoff without a status text has been answered Ok after
\* the clock moved, and the user, now offline since that moment, still
\* shows the text of an earlier login.
C31_Witness ==
    \E c \in Conns :
        /\ pc[c] = "done"
        /\ req[c].action = "logoff"
        /\ req[c].status = None
        /\ Answer(c).status = "Ok"
        /\ Authed(c) \in DOMAIN users
        /\ users[Authed(c)].status = [online |-> FALSE, text |-> Some("brb"),
                                      since |-> now]
        /\ now > 0

\* The request names a method other than GET, a path without "/", an action
\* that is not one of the eight names, or a header line without ":".
Undecodable(raw) ==
    \/ raw.method # "GET"
    \/ ~raw.slash
    \/ raw.name \notin {"login", "logoff", "finger", "check", "bump", "list",
                        "register", "deregister"}
    \/ \E i \in DOMAIN raw.headers : raw.headers[i].v = None

\* C32: a request whose method is not GET, whose path does not start with
\* "/", whose action is not exactly one of the eight names, or one of whose
\* header lines has no ":" ends in a parse error: the task answers with the
\* error and no request is handed to a handler.
C32_UndecodableIsParseError ==
    [][\A c \in Conns, raw \in ParseRequests :
          (Undecodable(raw) /\ Accept(c, raw))
          => /\ Parse(raw).kind = "err"
             /\ pc'[c] = "done"
             /\ req'[c] = NoReq
             /\ users' = users]_vars

\* A text with every "+" replaced by a space.
PlusToSpace(w) == [i \in DOMAIN w |-> IF w[i] = "+" THEN " " ELSE w[i]]

\* The value of the last `status` item of the query.
StatusValue(raw) ==
    LET S == {i \in DOMAIN raw.query : raw.query[i].k = "status"}
        last == CHOOSE i \in S : \A j \in S : j <= i
    IN IF S = {} THEN None ELSE raw.query[last].v

\* C33: the decoder stores the value of the `status` parameter with every
\* "+" replaced by a space, a login or logoff makes that decoded text the
\* user's status text, and so every status text a finger shows is free of
\* "+": status=be+right+back is shown as "be right back".
C33_PlusDecodedToSpace ==
    /\ [][\A c \in Conns, raw \in ParseRequests :
             (Accept(c, raw) /\ pc'[c] = "dispatch" /\ StatusValue(raw) # None)
             => req'[c].status = Some(PlusToSpace(Unwrap(StatusValue(raw))))]_vars
    /\ [](\A c \in Conns :
             (pc[c] = "done" /\ req[c].action = "finger" /\ Answer(c).user # None)
             => Unwrap(Answer(c).user).status.text
                   \in Opt({PlusToSpace(t) : t \in ParseTexts}))

\* C34: decoding is total: whatever the request line, the query (a
\* recognized key without "=" included) and the header lines, the decoder
\* ends in a request or in a parse error, and the connection task goes on
\* to a handler or answers the error; it never aborts.
C34_DecodingTotal ==
    [][\A c \in Conns, raw \in ParseRequests :
          Accept(c, raw)
          => /\ Parse(raw).kind \in {"ok", "err"}
             /\ pc'[c] \in {"dispatch", "done"}]_vars

\* Connection task c runs a handler: it waits for the lock or holds it.
InHandler(c) ==
    pc[c] \in {"dispatch", "authed", "finger_from", "finger_visit",
               "register_io", "remove_io"}

\* A pass of the offline worker would change a record.
SweepDue == check_statuses(users, now) # users

\* C35: the lock is held only by a task in its file I/O under the lock,
\* never by a task that is over (answered or aborted) nor by one that waits
\* to lock; and when the lock is handed out fairly every task gets through
\* all the lock() calls of its handler and comes to its end, and a pass of
\* the offline worker that is due takes place.
C35_LockAlwaysReleased ==
    /\ [](lock = Free \/ \E c \in Conns : lock = Held(c))
    /\ [](\A c \in Conns : lock = Held(c) => pc[c] \in {"register_io", "remove_io"})
    /\ \A c \in Conns : InHandler(c) ~> (pc[c] \in {"done", "panicked"} /\ lock # Held(c))
    /\ SweepDue ~> ~SweepDue

\* C35 witness: a register ended in the error of the users file and gave
\* the lock back, and the other task holds it now.
C35_Witness ==
    \E c \in Conns, d \in Conns :
        /\ c # d
        /\ pc[c] = "done"
        /\ req[c].action = "register"
        /\ Answer(c).status = "ServerError"
        /\ lock = Held(d)

\* C36: a step of a task whose request names user u leaves every record
\* of another user v in the registry with its status and bumped value, and
\* with its visit log unless the step is the visit of u's finger of v, which
\* appends the visitor; the steps of a login, logoff, bump or check leave
\* the whole record of every other user as it is.
C36_OtherUsersUntouched ==
    [][\A c \in Conns, v \in DOMAIN users :
          (pc'[c] # pc[c] /\ req[c].username # None /\ Authed(c) # v)
          => /\ v \in DOMAIN users'
             /\ users'[v].status = users[v].status
             /\ users'[v].bumped = users[v].bumped
             /\ users'[v].uuid = users[v].uuid
             /\ \/ users'[v].log = users[v].log
                \/ /\ req[c].action = "finger"
                   /\ pc[c] = "finger_visit"
                   /\ req[c].finger_user = Some(v)
                   /\ users'[v].log = add_log(users[v], Unwrap(from[c])).log
             /\ req[c].action \in {"login", "logoff", "bump", "check"}
                   => users'[v] = users[v]]_vars

\* C36 witness: a bump of an online user has been answered while the other
\* user is online without a bump and holds a visit in its log.
C36_Witness ==
    \E c \in Conns, v \in DOMAIN users :
        /\ pc[c] = "done"
        /\ req[c].action = "bump"
        /\ Answer(c).status = "Ok"
        /\ Authed(c) \in DOMAIN users
        /\ users[Authed(c)].bumped # None
        /\ v # Authed(c)
        /\ users[v].status.online
        /\ users[v].bumped = None
        /\ users[v].log # << >>

\* C37: remove(u) on a users file that parses, whatever it lists (u more
\* than once included) and the file system not failing, comes to an end
\* without aborting the task and leaves a file in which every entry of
\* another username is still listed, in the order it had, and no entry
\* named u remains.
C37_RemoveDeletesOnlyU ==
    [][\A c \in Conns :
          (/\ pc[c] = "remove_io"
           /\ pc'[c] # "remove_io"
           /\ store.valid
           /\ pc'[c] = "done" => Answer(c)'.msg # IoErr)
          => /\ pc'[c] = "done"
             /\ store'.valid
             /\ Without(store'.list, Authed(c)) = Without(store.list, Authed(c))
             /\ Authed(c) \notin StoreNames(store')]_vars

====
